---- MODULE Spec2Model ----
(***************************************************************************)
(* The `register` HTTPS function of acheivement_engagement, in its two     *)
(* variants:                                                               *)
(*   "base"     - src/functions/index.js  (one mailing list, the 200 is    *)
(*                sent before the mailing-list call)                       *)
(*   "extended" - src/unnamed/part_000    (CORS wrapper, eleven required   *)
(*                fields, region normalisation, two mailing lists)         *)
(*                                                                         *)
(* One invocation is a coroutine: it runs synchronously up to its next     *)
(* `await fetch(...)`, and is resumed by the completion of that call.      *)
(* Each action below is one such synchronous run.  Reading a response's    *)
(* body (`response.text()`, `response.json()`) is taken together with the  *)
(* completion of the fetch that produced the response.                     *)
(***************************************************************************)
EXTENDS Integers, Sequences, FiniteSets, TLC

VARIABLES
    variant,            \* which of the two source files is deployed
    pc,                 \* per invocation: the await the handler is suspended at
    req,                \* per invocation: the request (method, body)
    locals,             \* per invocation: the destructured request fields
    zoomData,           \* per invocation: parsed registrant-creation response
    mailchimpResponse,  \* per invocation: first list's response (extended)
    calls,              \* per invocation: outbound fetch calls issued, in order
    received,           \* per invocation: completions delivered, in order
    sends               \* per invocation: res.send / res.json executions, in order

vars == <<variant, pc, req, locals, zoomData, mailchimpResponse, calls, received, sends>>

(***************************************************************************)
(* Bounds of the model.                                                    *)
(***************************************************************************)
MaxEmailLen == 5        \* longest email value a request carries
MaxMissing == 2         \* how many fields of a full body are removed or emptied

Variants == {"base", "extended"}
Invocations == {1, 2}

\* JavaScript's `undefined` where a string is expected (an absent property
\* of a parsed body, error.type / error.text of an untagged error).
Undefined == "undefined"

(***************************************************************************)
(* Request bodies.  A body is a function from the field names it carries   *)
(* to their values; an absent field is not in its domain.  The email is a  *)
(* sequence of characters so that the pattern can be matched against it;   *)
(* the other fields are strings.                                           *)
(***************************************************************************)
Chars == {"a", ".", "@", " "}
Fields == {"firstName", "lastName", "email", "company", "jobTitle", "eventId",
           "city", "state", "region", "zipCode", "phone"}
Methods == {"POST", "OPTIONS", "GET", "PUT"}
Regions == {"United States", "US", "Canada", "united states"}

Emails == UNION {[1..n -> Chars] : n \in 0..MaxEmailLen}
GoodEmail == <<"a", "@", "a", ".", "a">>
BadEmail == <<"a", "@", "a">>

EmptyString(f) == IF f = "email" THEN <<>> ELSE ""

FullBody(e, r) ==
    [f \in Fields |->
        CASE f = "email"     -> e
          [] f = "region"    -> r
          [] f = "firstName" -> "Ada"
          [] f = "lastName"  -> "Lovelace"
          [] f = "company"   -> "Acme"
          [] f = "jobTitle"  -> "Engineer"
          [] f = "eventId"   -> "123"
          [] f = "city"      -> "Paris"
          [] f = "state"     -> "IDF"
          [] f = "zipCode"   -> "75001"
          [] f = "phone"     -> "555"]

\* body b with the fields of `absent` removed and those of `empty` set to "".
Blank(b, absent, empty) ==
    [f \in DOMAIN b \ absent |-> IF f \in empty THEN EmptyString(f) ELSE b[f]]

BlankedSets == {t \in SUBSET Fields : Cardinality(t) \in 1..MaxMissing}
Blankings == UNION {{<<a, t \ a>> : a \in SUBSET t} : t \in BlankedSets}

Bodies ==
    {FullBody(e, r) : e \in Emails, r \in Regions}
    \cup {Blank(FullBody(e, r), p[1], p[2]) :
            e \in {GoodEmail, BadEmail}, r \in Regions, p \in Blankings}

(***************************************************************************)
(* Validation (both variants).                                             *)
(***************************************************************************)
\* Mutation of Required: the extended variant checks the base fields only.
Required_BaseOnly(v) == {"firstName", "lastName", "email", "eventId", "company"}

Required(v) ==
    IF v = "base"
    THEN {"firstName", "lastName", "email", "eventId", "company"}
    ELSE {"firstName", "lastName", "email", "eventId", "company", "city",
          "region", "zipCode", "state", "phone", "jobTitle"}

\* !field : the field is undefined or the empty string
Falsy(b, f) == f \notin DOMAIN b \/ b[f] = EmptyString(f)

MissingRequiredFields(v, b) == \E f \in Required(v) : Falsy(b, f)

\* [^\s@]
NotSpaceNorAt(c) == c \notin {" ", "@"}

\* Mutation of emailRegexTest: the pattern without its ".tld" part,
\* /^[^\s@]+@[^\s@]+$/
emailRegexTest_NoTld(e) ==
    \E i \in 1..Len(e) :
        /\ e[i] = "@"
        /\ 1 < i
        /\ i < Len(e)
        /\ \A k \in (1..Len(e)) \ {i} : NotSpaceNorAt(e[k])

\* /^[^\s@]+@[^\s@]+\.[^\s@]+$/.test(e)
emailRegexTest(e) ==
    \E i \in 1..Len(e), j \in 1..Len(e) :
        /\ e[i] = "@"
        /\ e[j] = "."
        /\ 1 < i
        /\ i + 1 < j
        /\ j < Len(e)
        /\ \A k \in (1..Len(e)) \ {i} : NotSpaceNorAt(e[k])

\* the `let { ... } = req.body` destructuring
Destructured(v) ==
    IF v = "base"
    THEN {"firstName", "lastName", "email", "company", "jobTitle", "eventId"}
    ELSE Fields

Destructure(v, b) == [f \in DOMAIN b \cap Destructured(v) |-> b[f]]

\* Mutation of NormalizeRegion: the comparison ignores case.
NormalizeRegion_IgnoreCase(l) ==
    IF "region" \in DOMAIN l /\ l["region"] \in {"United States", "united states"}
    THEN [l EXCEPT !["region"] = "US"]
    ELSE l

\* if (region === "United States") { region = "US" }   (extended only)
NormalizeRegion(l) ==
    IF "region" \in DOMAIN l /\ l["region"] = "United States"
    THEN [l EXCEPT !["region"] = "US"]
    ELSE l

(***************************************************************************)
(* Outbound calls.  JSON.stringify drops properties whose value is         *)
(* undefined: Pick keeps the keys whose local is defined.                  *)
(***************************************************************************)
Pick(l, keys) == [k \in {x \in DOMAIN keys : keys[x] \in DOMAIN l} |-> l[keys[k]]]

TokenCall ==
    [endpoint |-> "token", target |-> "ZOOM_ACCOUNT_ID", auth |-> "Basic",
     payload |-> <<>>]

ZoomPayload(v, l) ==
    IF v = "base"
    THEN Pick(l, [email |-> "email", first_name |-> "firstName",
                  last_name |-> "lastName", org |-> "company"])
    ELSE Pick(l, [email |-> "email", first_name |-> "firstName",
                  last_name |-> "lastName", org |-> "company", city |-> "city",
                  country |-> "region", zip |-> "zipCode", state |-> "state",
                  phone |-> "phone", job_title |-> "jobTitle"])

ZoomCall(v, l, token) ==
    [endpoint |-> "zoom", target |-> l["eventId"], auth |-> token,
     payload |-> ZoomPayload(v, l)]

MailchimpPayload(v, l) ==
    IF v = "base"
    THEN [email_address |-> l["email"],
          status_if_new |-> "subscribed",
          merge_fields |-> Pick(l, [FNAME |-> "firstName", LNAME |-> "lastName",
                                    COMPANY |-> "company", JOBTITLE |-> "jobTitle"])]
    ELSE [email_address |-> l["email"],
          status |-> "subscribed",
          status_if_new |-> "subscribed",
          merge_fields |->
              Pick(l, ("FNAME" :> "firstName") @@ ("LNAME" :> "lastName")
                       @@ ("COMPANY" :> "company") @@ ("JOBTITLE" :> "jobTitle")
                       @@ ("CITY" :> "city") @@ ("PHONE" :> "phone")
                       @@ ("STATE" :> "state") @@ ("ZIPCODE" :> "zipCode")
                       @@ ("REGION" :> "region"))
              @@ ("LEADSOURCE" :> "WEBSITE EVENT REGISTRATION"),
          tag |-> "ALUMNI"]

\* list is "mailchimp" (MAILCHIMP_LIST_ID) or "mailchimp2" (MAILCHIMP_LIST_ID_2)
MailchimpCall(v, l, list) ==
    [endpoint |-> list,
     target |-> IF list = "mailchimp" THEN "MAILCHIMP_LIST_ID" ELSE "MAILCHIMP_LIST_ID_2",
     auth |-> "apikey",
     payload |-> MailchimpPayload(v, l)]

(***************************************************************************)
(* Completions of an outbound call.  A completion is either an HTTP        *)
(* response (status, raw body text) or a rejection of the fetch promise.   *)
(* libType is the `type` property of the error object the fetch library    *)
(* raises for this completion when it raises one (a rejected fetch, or a   *)
(* response.json() on a body that is not JSON): the library sets it or     *)
(* not depending on its version, so both are possible.                     *)
(***************************************************************************)
TokA == "{\"access_token\":\"tokA\"}"
TokB == "{\"access_token\":\"tokB\"}"
UrlA == "{\"join_url\":\"https://zoom.us/w/1\"}"
UrlB == "{\"join_url\":\"https://zoom.us/w/2\"}"
MsgText == "{\"message\":\"Invalid resource\"}"
EmptyMsgText == "{\"message\":\"\"}"
EmptyObjText == "{}"
NullText == "null"
PlainText == "Service Unavailable"
StringText == "\"unavailable\""

ErrorTexts == {MsgText, EmptyMsgText, EmptyObjText, NullText, StringText, PlainText}

\* JSON.parse on the texts above: a syntax error, null, or a value given as
\* the function from its property names to their values (a JSON string has
\* none of the properties read here).
JSONParse(t) ==
    CASE t = TokA -> [syntaxError |-> FALSE, isNull |-> FALSE, obj |-> [access_token |-> "tokA"]]
      [] t = TokB -> [syntaxError |-> FALSE, isNull |-> FALSE, obj |-> [access_token |-> "tokB"]]
      [] t = UrlA -> [syntaxError |-> FALSE, isNull |-> FALSE, obj |-> [join_url |-> "https://zoom.us/w/1"]]
      [] t = UrlB -> [syntaxError |-> FALSE, isNull |-> FALSE, obj |-> [join_url |-> "https://zoom.us/w/2"]]
      [] t = MsgText -> [syntaxError |-> FALSE, isNull |-> FALSE, obj |-> [message |-> "Invalid resource"]]
      [] t = EmptyMsgText -> [syntaxError |-> FALSE, isNull |-> FALSE, obj |-> [message |-> ""]]
      [] t = EmptyObjText -> [syntaxError |-> FALSE, isNull |-> FALSE, obj |-> <<>>]
      [] t = NullText -> [syntaxError |-> FALSE, isNull |-> TRUE, obj |-> <<>>]
      [] t = StringText -> [syntaxError |-> FALSE, isNull |-> FALSE, obj |-> <<>>]
      [] OTHER -> [syntaxError |-> TRUE, isNull |-> FALSE, obj |-> <<>>]

\* value.name for a parsed, non-null value
Prop(p, name) == IF name \in DOMAIN p.obj THEN p.obj[name] ELSE Undefined

\* response.ok
Ok(status) == status \in 200..299

Response(status, text, libType) ==
    [threw |-> FALSE, status |-> status, text |-> text, libType |-> libType]

Rejection(libType) ==
    [threw |-> TRUE, status |-> 0, text |-> Undefined, libType |-> libType]

Rejections == {Rejection(t) : t \in {Undefined, "system"}}

Failures == {Response(s, t, Undefined) : s \in {400, 500}, t \in ErrorTexts}

Garbled == {Response(200, PlainText, t) : t \in {Undefined, "invalid-json"}}

TokenOutcomes ==
    {Response(200, t, Undefined) : t \in {TokA, TokB, EmptyObjText, NullText}}
    \cup Garbled \cup Failures \cup Rejections

ZoomOutcomes ==
    {Response(s, t, Undefined) : s \in {200, 201}, t \in {UrlA, UrlB}}
    \cup {Response(201, t, Undefined) : t \in {EmptyObjText, NullText}}
    \cup Garbled \cup Failures \cup Rejections

MailchimpOutcomes ==
    {Response(200, EmptyObjText, Undefined)} \cup Failures \cup Rejections

(***************************************************************************)
(* HTTP responses of the handler: [status, body].  A body sent as text is  *)
(* [text |-> ...]; a property whose value is Undefined is dropped when     *)
(* the body is serialised.                                                 *)
(***************************************************************************)
Preflight == [status |-> 204, body |-> [text |-> ""]]

MethodNotAllowed == [status |-> 405, body |-> [text |-> "Method Not Allowed"]]

MissingFields ==
    [status |-> 500,
     body |-> [message |-> "Request Error", info |-> "Missing required fields",
               errorAt |-> "requestBody"]]

InvalidEmail ==
    [status |-> 400,
     body |-> [message |-> "Request Error", info |-> "Invalid email format",
               errorAt |-> "requestBody"]]

\* Mutation of RegistrationSuccessful: reads zoomData.joinUrl.
RegistrationSuccessful_WrongProperty(d) ==
    [status |-> 200,
     body |-> [message |-> "Registration successful", join_url |-> Prop(d, "joinUrl")]]

RegistrationSuccessful(d) ==
    [status |-> 200,
     body |-> [message |-> "Registration successful", join_url |-> Prop(d, "join_url")]]

\* An error object, as far as the catch block reads it: error.type, error.text
Error(type, text) == [type |-> type, text |-> text]

\* Mutation of errorInfo: `parsedError.message` without `|| error.text`.
errorInfo_NoFallback(error) ==
    IF error.text = Undefined
    THEN Undefined
    ELSE LET parsedError == JSONParse(error.text) IN
         IF parsedError.syntaxError \/ parsedError.isNull
         THEN error.text
         ELSE Prop(parsedError, "message")

\* The catch block's decoding of error.text
errorInfo(error) ==
    IF error.text = Undefined
    THEN Undefined
    ELSE LET parsedError == JSONParse(error.text) IN
         IF parsedError.syntaxError \/ parsedError.isNull
         THEN error.text
         ELSE IF Prop(parsedError, "message") \notin {Undefined, ""}
              THEN Prop(parsedError, "message")
              ELSE error.text

InternalServerError(error) ==
    [status |-> 500,
     body |-> [message |-> "Internal Server Error", info |-> errorInfo(error),
               errorAt |-> error.type]]

\* The error a completion makes the fetch library raise
LibraryError(o) == Error(o.libType, Undefined)

\* new Error(...) / TypeError without type and text
PlainError == Error(Undefined, Undefined)

\* Mutation of MethodAllowed: GET passes the gate too.
MethodAllowed_GetToo(method) == method \in {"POST", "GET"}

\* Mutation of TokenFailed: the status of the token response is not tested.
TokenFailed_Never(o) == FALSE

\* Mutation of ZoomFailed: the status of the registrant response is not tested.
ZoomFailed_Never(o) == FALSE

\* if (req.method !== 'POST') : the methods that pass the gate
MethodAllowed(method) == method = "POST"

\* if (!response.ok) in getZoomAccessToken
TokenFailed(o) == ~Ok(o.status)

\* if (!zoomResponse.ok)
ZoomFailed(o) == ~Ok(o.status)

\* Mutation of MailchimpFailed: the status of a list response is not tested.
MailchimpFailed_Never(v, o) == FALSE

\* the test guarding the "Mailchimp API error" throw
MailchimpFailed(v, o) ==
    IF v = "base"
    THEN ~Ok(o.status) /\ o.status # 400
    ELSE ~Ok(o.status) /\ o.status # 200

\* No error thrown
NoError == Error("", "")

\* Mutation of ListError: the first list's status is tested first.
ListError_FirstListFirst(v, o1, o2) ==
    IF MailchimpFailed(v, o1)
    THEN Error("mailchimp 1", o1.text)
    ELSE IF MailchimpFailed(v, o2)
    THEN Error("mailchimp 2", o2.text)
    ELSE NoError

\* extended: the two status tests that follow the second list's response,
\* o1 the first list's response and o2 the second's; the error they throw.
ListError(v, o1, o2) ==
    IF MailchimpFailed(v, o2)
    THEN Error("mailchimp 2", o2.text)
    ELSE IF MailchimpFailed(v, o1)
    THEN Error("mailchimp 1", o1.text)
    ELSE NoError

\* Mutation of SendsBeforeListSync: no variant sends before the list call.
SendsBeforeListSync_Never(v) == FALSE

\* Whether the 200 is sent between the registrant response and the list
\* request (base) or after the list responses (extended).
SendsBeforeListSync(v) == v = "base"

\* Mutation of TestsListAtOnce: the first list's status is tested, and the
\* handler ends, as soon as the first list has answered.
TestsListAtOnce_Always(v) == TRUE

\* Whether the status test follows the first list's response directly
\* (base) or the second list is requested first (extended).
TestsListAtOnce(v) == v = "base"

\* Mutation of DispatchedAfterRegistrant: both lists are requested before
\* the first await.
DispatchedAfterRegistrant_Both(v, l) ==
    IF v = "base"
    THEN <<MailchimpCall(v, l, "mailchimp")>>
    ELSE <<MailchimpCall(v, l, "mailchimp"), MailchimpCall(v, l, "mailchimp2")>>

\* The list requests made between the registrant response and the next
\* await.
DispatchedAfterRegistrant(v, l) == <<MailchimpCall(v, l, "mailchimp")>>

(***************************************************************************)
(* State.                                                                  *)
(***************************************************************************)
NoRequest == [method |-> "", body |-> <<>>]
NoData == [syntaxError |-> FALSE, isNull |-> FALSE, obj |-> <<>>]
NoResponse == Response(0, Undefined, Undefined)

Init ==
    /\ variant \in Variants
    /\ pc = [i \in Invocations |-> "idle"]
    /\ req = [i \in Invocations |-> NoRequest]
    /\ locals = [i \in Invocations |-> <<>>]
    /\ zoomData = [i \in Invocations |-> NoData]
    /\ mailchimpResponse = [i \in Invocations |-> NoResponse]
    /\ calls = [i \in Invocations |-> <<>>]
    /\ received = [i \in Invocations |-> <<>>]
    /\ sends = [i \in Invocations |-> <<>>]

\* res.status(..).send(..) / .json(..), after which the handler returns
\* (or, when a response was already sent, ends with the exception that the
\* second send raises).
Respond(i, r) ==
    /\ sends' = [sends EXCEPT ![i] = Append(@, r)]
    /\ pc' = [pc EXCEPT ![i] = "done"]
    /\ UNCHANGED calls

\* fetch(..) followed by the await on it
Fetch(i, c, at) ==
    /\ calls' = [calls EXCEPT ![i] = Append(@, c)]
    /\ pc' = [pc EXCEPT ![i] = at]

Receive(i, endpoint, o) ==
    received' = [received EXCEPT ![i] = Append(@, [endpoint |-> endpoint, outcome |-> o])]

(***************************************************************************)
(* The handler, from its invocation to the first await: method gate,       *)
(* validation, region normalisation, email check, token request.           *)
(* In the extended variant the handler body is the `next` callback of the  *)
(* cors middleware; for OPTIONS either the middleware or the callback's    *)
(* first branch answers, both with a 204 and an empty body.                *)
(***************************************************************************)
Handle(i, method, body) ==
    /\ req' = [req EXCEPT ![i] = [method |-> method, body |-> body]]
    /\ UNCHANGED <<variant, zoomData, mailchimpResponse, received>>
    /\ IF variant = "extended" /\ method = "OPTIONS"
       THEN Respond(i, Preflight) /\ UNCHANGED locals
       ELSE IF ~MethodAllowed(method)
       THEN Respond(i, MethodNotAllowed) /\ UNCHANGED locals
       ELSE IF MissingRequiredFields(variant, body)
       THEN Respond(i, MissingFields) /\ UNCHANGED locals
       ELSE IF ~emailRegexTest(body["email"])
       THEN Respond(i, InvalidEmail) /\ UNCHANGED locals
       ELSE /\ locals' = [locals EXCEPT ![i] =
                            IF variant = "extended"
                            THEN NormalizeRegion(Destructure(variant, body))
                            ELSE Destructure(variant, body)]
            /\ Fetch(i, TokenCall, "getZoomAccessToken")
            /\ UNCHANGED sends

Register(i) ==
    /\ pc[i] = "idle"
    /\ \E method \in Methods, body \in Bodies : Handle(i, method, body)

\* Mutation of zoomAccessToken: a token obtained by another invocation is
\* kept and used in its place.
zoomAccessToken_Cached(i, data) ==
    LET others == {j \in Invocations \ {i} :
                     \E k \in 1..Len(calls[j]) : calls[j][k].endpoint = "zoom"}
    IN  IF others = {}
        THEN Prop(data, "access_token")
        ELSE LET j == CHOOSE x \in others : TRUE
                 k == CHOOSE n \in 1..Len(calls[j]) : calls[j][n].endpoint = "zoom"
             IN  calls[j][k].auth

\* const zoomAccessToken = await getZoomAccessToken(): data.access_token of
\* the response to this invocation's own token request
zoomAccessToken(i, data) == Prop(data, "access_token")

(***************************************************************************)
(* getZoomAccessToken resumes with the token endpoint's completion, and    *)
(* the handler goes on to the registrant request.                          *)
(***************************************************************************)
TokenCompletes(i, o) ==
    /\ pc[i] = "getZoomAccessToken"
    /\ Receive(i, "token", o)
    /\ UNCHANGED <<variant, req, locals, zoomData, mailchimpResponse>>
    /\ IF o.threw
       THEN Respond(i, InternalServerError(LibraryError(o)))
       ELSE IF TokenFailed(o)
       THEN Respond(i, InternalServerError(PlainError))
       ELSE LET data == JSONParse(o.text) IN
            IF data.syntaxError
            THEN Respond(i, InternalServerError(LibraryError(o)))
            ELSE IF data.isNull
            THEN Respond(i, InternalServerError(PlainError))
            ELSE /\ Fetch(i, ZoomCall(variant, locals[i], zoomAccessToken(i, data)),
                          "zoomResponse")
                 /\ UNCHANGED sends

(***************************************************************************)
(* The handler resumes with the registrant endpoint's completion.          *)
(* base: sends the 200, then requests the mailing list.                    *)
(* extended: requests the first mailing list.                              *)
(***************************************************************************)
ZoomCompletes(i, o) ==
    /\ pc[i] = "zoomResponse"
    /\ Receive(i, "zoom", o)
    /\ UNCHANGED <<variant, req, locals, mailchimpResponse>>
    /\ IF o.threw
       THEN Respond(i, InternalServerError(LibraryError(o))) /\ UNCHANGED zoomData
       ELSE IF ZoomFailed(o)
       THEN Respond(i, InternalServerError(Error("zoom", o.text))) /\ UNCHANGED zoomData
       ELSE LET data == JSONParse(o.text) IN
            IF data.syntaxError
            THEN Respond(i, InternalServerError(LibraryError(o))) /\ UNCHANGED zoomData
            ELSE IF variant = "base" /\ data.isNull
            THEN Respond(i, InternalServerError(PlainError)) /\ UNCHANGED zoomData
            ELSE /\ zoomData' = [zoomData EXCEPT ![i] = data]
                 /\ sends' = [sends EXCEPT ![i] =
                                IF SendsBeforeListSync(variant)
                                THEN Append(@, RegistrationSuccessful(data))
                                ELSE @]
                 /\ calls' = [calls EXCEPT ![i] =
                                @ \o DispatchedAfterRegistrant(variant, locals[i])]
                 /\ pc' = [pc EXCEPT ![i] = "mailchimpResponse"]

(***************************************************************************)
(* The handler resumes with the (first) mailing list's completion.         *)
(* base: the status test; a failure is thrown to the catch block, which    *)
(* sends although the 200 has been sent.                                   *)
(* extended: requests the second mailing list.                             *)
(***************************************************************************)
MailchimpCompletes(i, o) ==
    /\ pc[i] = "mailchimpResponse"
    /\ Receive(i, "mailchimp", o)
    /\ UNCHANGED <<variant, req, locals, zoomData>>
    /\ IF o.threw
       THEN Respond(i, InternalServerError(LibraryError(o))) /\ UNCHANGED mailchimpResponse
       ELSE IF TestsListAtOnce(variant)
       THEN /\ UNCHANGED mailchimpResponse
            /\ IF MailchimpFailed(variant, o)
               THEN Respond(i, InternalServerError(Error("mailchimp", o.text)))
               ELSE /\ pc' = [pc EXCEPT ![i] = "done"]
                    /\ UNCHANGED <<calls, sends>>
       ELSE /\ mailchimpResponse' = [mailchimpResponse EXCEPT ![i] = o]
            /\ Fetch(i, MailchimpCall(variant, locals[i], "mailchimp2"),
                     "mailchimpResponse2")
            /\ UNCHANGED sends

(***************************************************************************)
(* extended: the handler resumes with the second list's completion, tests  *)
(* the second list's status, then the first's, then sends the 200.         *)
(***************************************************************************)
Mailchimp2Completes(i, o) ==
    /\ pc[i] = "mailchimpResponse2"
    /\ Receive(i, "mailchimp2", o)
    /\ UNCHANGED <<variant, req, locals, zoomData, mailchimpResponse>>
    /\ IF o.threw
       THEN Respond(i, InternalServerError(LibraryError(o)))
       ELSE IF ListError(variant, mailchimpResponse[i], o) # NoError
       THEN Respond(i, InternalServerError(ListError(variant, mailchimpResponse[i], o)))
       ELSE IF zoomData[i].isNull
       THEN Respond(i, InternalServerError(PlainError))
       ELSE Respond(i, RegistrationSuccessful(zoomData[i]))

Next ==
    \/ Register(1)
    \/ \E o \in TokenOutcomes : TokenCompletes(1, o)
    \/ \E o \in ZoomOutcomes : ZoomCompletes(1, o)
    \/ \E o \in MailchimpOutcomes : MailchimpCompletes(1, o)
    \/ \E o \in MailchimpOutcomes : Mailchimp2Completes(1, o)

Spec == Init /\ [][Next]_vars

(***************************************************************************)
(* Two invocations of the deployed handler running at once: each resumes   *)
(* when one of its own calls completes, in any interleaving.  The requests *)
(* and completions are drawn from smaller sets.                            *)
(***************************************************************************)
ConcurrentBodies ==
    {FullBody(GoodEmail, "United States"), FullBody(GoodEmail, "Canada"),
     FullBody(BadEmail, "US")}

ConcurrentTokenOutcomes ==
    {Response(200, TokA, Undefined), Response(200, TokB, Undefined),
     Response(500, PlainText, Undefined)}

ConcurrentZoomOutcomes ==
    {Response(201, UrlA, Undefined), Response(201, UrlB, Undefined),
     Response(400, MsgText, Undefined)}

ConcurrentMailchimpOutcomes ==
    {Response(200, EmptyObjText, Undefined), Response(400, MsgText, Undefined),
     Response(500, PlainText, Undefined)}

RegisterConcurrently(i) ==
    /\ pc[i] = "idle"
    /\ \E method \in {"POST", "GET"}, body \in ConcurrentBodies : Handle(i, method, body)

NextConcurrent ==
    \E i \in Invocations :
        \/ RegisterConcurrently(i)
        \/ \E o \in ConcurrentTokenOutcomes : TokenCompletes(i, o)
        \/ \E o \in ConcurrentZoomOutcomes : ZoomCompletes(i, o)
        \/ \E o \in ConcurrentMailchimpOutcomes : MailchimpCompletes(i, o)
        \/ \E o \in ConcurrentMailchimpOutcomes : Mailchimp2Completes(i, o)

SpecConcurrent == Init /\ [][NextConcurrent]_vars

(***************************************************************************)
(* One invocation, every call that has been issued eventually completing.  *)
(***************************************************************************)
EveryCallCompletes ==
    /\ WF_vars(\E o \in TokenOutcomes : TokenCompletes(1, o))
    /\ WF_vars(\E o \in ZoomOutcomes : ZoomCompletes(1, o))
    /\ WF_vars(\E o \in MailchimpOutcomes : MailchimpCompletes(1, o))
    /\ WF_vars(\E o \in MailchimpOutcomes : Mailchimp2Completes(1, o))

SpecLive == Init /\ [][Next]_vars /\ EveryCallCompletes

(***************************************************************************)
(* Vocabulary of the properties below.                                     *)
(***************************************************************************)
Ended(i) == pc[i] = "done"

\* the invocation's request was a POST that passed both validations
Validated(i) == Len(calls[i]) > 0

\* the completions delivered to invocation i for an endpoint
Completions(i, endpoint) ==
    {received[i][k].outcome : k \in {n \in 1..Len(received[i]) :
                                        received[i][n].endpoint = endpoint}}

CallsTo(i, endpoint) ==
    {k \in 1..Len(calls[i]) : calls[i][k].endpoint = endpoint}

SuccessStatus(o) == ~o.threw /\ o.status >= 200 /\ o.status <= 299
FailureStatus(o) == ~o.threw /\ ~(o.status >= 200 /\ o.status <= 299)
AlreadyMember(o) == ~o.threw /\ o.status = 400

\* the lists the deployed variant is configured with
Lists == IF variant = "base" THEN {"mailchimp"} ELSE {"mailchimp", "mailchimp2"}

\* the response the caller receives: the first one sent
Delivered(i) == sends[i][1]

\* C1: every invocation that has ended has sent exactly one response.
C1_ExactlyOneResponse ==
    \A i \in Invocations : Ended(i) => Len(sends[i]) = 1

C2_AllSucceeded(i) ==
    /\ Ended(i)
    /\ \E o \in Completions(i, "token") : SuccessStatus(o)
    /\ \E o \in Completions(i, "zoom") :
          SuccessStatus(o) /\ "join_url" \in DOMAIN JSONParse(o.text).obj
    /\ \A l \in Lists : \E o \in Completions(i, l) : SuccessStatus(o)

\* C2: when the token call, the registrant call and the call to every
\* configured list returned a success status, the registrant response
\* carrying join_url J, the one response is the 200 "Registration
\* successful" whose join_url is J.
C2_SuccessReturnsJoinUrl ==
    \A i \in Invocations :
        C2_AllSucceeded(i) =>
            \A o \in Completions(i, "zoom") :
                sends[i] = <<[status |-> 200,
                              body |-> [message |-> "Registration successful",
                                        join_url |-> JSONParse(o.text).obj["join_url"]]]>>

C2_Witness ==
    /\ variant = "extended"
    /\ C2_AllSucceeded(1)
    /\ Delivered(1).body.join_url = "https://zoom.us/w/2"

C3_RequiredFields ==
    IF variant = "base"
    THEN {"firstName", "lastName", "email", "eventId", "company"}
    ELSE {"firstName", "lastName", "email", "eventId", "company",
          "jobTitle", "city", "state", "region", "zipCode", "phone"}

C3_AbsentOrEmpty(b, f) == f \notin DOMAIN b \/ b[f] = EmptyString(f)

C3_LacksField(i) ==
    /\ req[i].method = "POST"
    /\ \E f \in C3_RequiredFields : C3_AbsentOrEmpty(req[i].body, f)

\* C3: a POST lacking a required field (absent or empty) gets the 500
\* "Missing required fields" response and makes no outbound call.
C3_MissingFieldRejected ==
    \A i \in Invocations :
        C3_LacksField(i) =>
            /\ Ended(i)
            /\ calls[i] = <<>>
            /\ sends[i] = <<[status |-> 500,
                             body |-> [message |-> "Request Error",
                                       info |-> "Missing required fields",
                                       errorAt |-> "requestBody"]]>>

C3_Witness ==
    /\ variant = "extended"
    /\ C3_LacksField(1)
    /\ "jobTitle" \in DOMAIN req[1].body /\ req[1].body["jobTitle"] = ""
    /\ \A f \in C3_RequiredFields \ {"jobTitle"} : ~C3_AbsentOrEmpty(req[1].body, f)
    /\ Ended(1)

C4_Part(e, from, to) ==
    /\ from <= to
    /\ \A k \in from..to : e[k] # " " /\ e[k] # "@"

C4_Matches(e) ==
    \E at \in 1..Len(e), dot \in 1..Len(e) :
        /\ e[at] = "@"
        /\ e[dot] = "."
        /\ C4_Part(e, 1, at - 1)
        /\ C4_Part(e, at + 1, dot - 1)
        /\ C4_Part(e, dot + 1, Len(e))

C4_BadEmail(i) ==
    /\ req[i].method = "POST"
    /\ \A f \in C3_RequiredFields : ~C3_AbsentOrEmpty(req[i].body, f)
    /\ ~C4_Matches(req[i].body["email"])

\* C4: a POST with every required field present whose email does not have
\* the form local@domain.tld (each part non-empty, without whitespace or
\* "@") gets the 400 "Invalid email format" response and makes no outbound
\* call.
C4_InvalidEmailRejected ==
    \A i \in Invocations :
        C4_BadEmail(i) =>
            /\ Ended(i)
            /\ calls[i] = <<>>
            /\ sends[i] = <<[status |-> 400,
                             body |-> [message |-> "Request Error",
                                       info |-> "Invalid email format",
                                       errorAt |-> "requestBody"]]>>

C4_Witness ==
    /\ C4_BadEmail(1)
    /\ req[1].body["email"] = <<"a", "@", "a", "a", "a">>
    /\ Ended(1)

C5_TokenRefused(i) == \E o \in Completions(i, "token") : FailureStatus(o)

\* C5: when the token call returns a non-success status, the token call is
\* the only outbound call of the invocation and the response is a 500
\* with message "Internal Server Error".
C5_TokenFailureStops ==
    \A i \in Invocations :
        C5_TokenRefused(i) =>
            /\ Ended(i)
            /\ Len(calls[i]) = 1
            /\ calls[i][1].endpoint = "token"
            /\ Len(sends[i]) = 1
            /\ Delivered(i).status = 500
            /\ Delivered(i).body.message = "Internal Server Error"

C5_Witness ==
    /\ C5_TokenRefused(1)
    /\ \E o \in Completions(1, "token") : o.status = 500 /\ o.text = EmptyObjText
    /\ Ended(1)

C6_RegistrantRefused(i) ==
    /\ \E o \in Completions(i, "token") : SuccessStatus(o)
    /\ \E o \in Completions(i, "zoom") : FailureStatus(o)

\* C6: when the token call succeeds and the registrant call returns a
\* non-success status, no mailing-list call is made and the response is a
\* 500 whose errorAt is "zoom".
C6_RegistrantFailureStops ==
    \A i \in Invocations :
        C6_RegistrantRefused(i) =>
            /\ Ended(i)
            /\ CallsTo(i, "mailchimp") = {}
            /\ CallsTo(i, "mailchimp2") = {}
            /\ Len(sends[i]) = 1
            /\ Delivered(i).status = 500
            /\ Delivered(i).body.errorAt = "zoom"

C6_Witness ==
    /\ C6_RegistrantRefused(1)
    /\ \E o \in Completions(1, "zoom") : o.status = 400 /\ o.text = EmptyObjText
    /\ Ended(1)

C7_Tag(l) ==
    IF variant = "base" THEN "mailchimp"
    ELSE IF l = "mailchimp" THEN "mailchimp 1" ELSE "mailchimp 2"

C7_ListFailed(i, l) ==
    \E o \in Completions(i, l) : FailureStatus(o) /\ ~AlreadyMember(o)

\* C7: when the token and registrant calls succeed and a configured list
\* returns a status that is neither a success nor "already a member", the
\* caller receives a 500 whose errorAt names a list that failed.
C7_ListFailureReported ==
    \A i \in Invocations :
        ( /\ Ended(i)
          /\ \E o \in Completions(i, "token") : SuccessStatus(o)
          /\ \E o \in Completions(i, "zoom") : SuccessStatus(o)
          /\ \E l \in Lists : C7_ListFailed(i, l) )
        => /\ Delivered(i).status = 500
           /\ \E l \in Lists :
                 C7_ListFailed(i, l) /\ Delivered(i).body.errorAt = C7_Tag(l)

C8_ListsAccepted(i) ==
    /\ Ended(i)
    /\ \E o \in Completions(i, "token") : SuccessStatus(o)
    /\ \E o \in Completions(i, "zoom") :
          SuccessStatus(o) /\ "join_url" \in DOMAIN JSONParse(o.text).obj
    /\ \A l \in Lists : \E o \in Completions(i, l) : SuccessStatus(o) \/ AlreadyMember(o)
    /\ \E l \in Lists : \E o \in Completions(i, l) : AlreadyMember(o)

\* C8: a list answering "already a member" (400) counts as a success for
\* that list: when the token and registrant calls succeed and every list
\* answers with a success or with "already a member", at least one with
\* the latter, the one response is the 200 with the join URL.
C8_AlreadyMemberAccepted ==
    \A i \in Invocations :
        C8_ListsAccepted(i) =>
            /\ Len(sends[i]) = 1
            /\ Delivered(i).status = 200
            /\ \E o \in Completions(i, "zoom") :
                  Delivered(i).body.join_url = JSONParse(o.text).obj["join_url"]

C9_Forwarded(region) == IF region = "United States" THEN "US" ELSE region

C9_Registrant(b) ==
    [email |-> b["email"], first_name |-> b["firstName"],
     last_name |-> b["lastName"], org |-> b["company"], city |-> b["city"],
     country |-> C9_Forwarded(b["region"]), zip |-> b["zipCode"],
     state |-> b["state"], phone |-> b["phone"], job_title |-> b["jobTitle"]]

C9_MergeFields(b) ==
    ("FNAME" :> b["firstName"]) @@ ("LNAME" :> b["lastName"])
    @@ ("COMPANY" :> b["company"]) @@ ("JOBTITLE" :> b["jobTitle"])
    @@ ("CITY" :> b["city"]) @@ ("PHONE" :> b["phone"])
    @@ ("STATE" :> b["state"]) @@ ("ZIPCODE" :> b["zipCode"])
    @@ ("REGION" :> C9_Forwarded(b["region"]))
    @@ ("LEADSOURCE" :> "WEBSITE EVENT REGISTRATION")

\* C9 (extended): the registrant call's country and the REGION merge field
\* of both list calls are "US" when the request's region is "United
\* States" and the request's region otherwise; every other field reaches
\* the outbound payloads as the request carried it.
C9_RegionForwarded ==
    \A i \in Invocations :
        (variant = "extended" /\ Validated(i)) =>
            \A k \in 1..Len(calls[i]) :
                LET c == calls[i][k]
                    b == req[i].body
                IN  /\ c.endpoint = "zoom" =>
                          /\ c.payload = C9_Registrant(b)
                          /\ c.target = b["eventId"]
                    /\ c.endpoint \in {"mailchimp", "mailchimp2"} =>
                          /\ c.payload.email_address = b["email"]
                          /\ c.payload.merge_fields = C9_MergeFields(b)

C9_Witness ==
    /\ variant = "extended"
    /\ CallsTo(1, "zoom") # {}
    /\ CallsTo(1, "mailchimp") # {}
    /\ CallsTo(1, "mailchimp2") # {}
    /\ req[1].body["region"] = "United States"
    /\ \A k \in CallsTo(1, "mailchimp2") :
          calls[1][k].payload.merge_fields["REGION"] = "US"

C10_NotPost(i) == req[i] # NoRequest /\ req[i].method # "POST"

\* C10: a request whose method is not POST makes no outbound call and is
\* answered without its fields being validated: 204 with an empty body
\* for OPTIONS in the extended variant, 405 otherwise.
C10_MethodGate ==
    \A i \in Invocations :
        C10_NotPost(i) =>
            /\ Ended(i)
            /\ calls[i] = <<>>
            /\ Len(sends[i]) = 1
            /\ IF req[i].method = "OPTIONS" /\ variant = "extended"
               THEN Delivered(i).status = 204 /\ Delivered(i).body = [text |-> ""]
               ELSE Delivered(i).status = 405

C10_Witness ==
    /\ variant = "base"
    /\ req[1].method = "OPTIONS"
    /\ "email" \notin DOMAIN req[1].body
    /\ Ended(1)
    /\ Delivered(1).status = 405

\* a call to the endpoint has been issued and has not completed
InFlight(i, endpoint) == CallsTo(i, endpoint) # {} /\ Completions(i, endpoint) = {}

ListTags == {"mailchimp", "mailchimp 1", "mailchimp 2"}

\* the errorAt and info properties of a response, if its body has them
ErrorAt(r) == IF "errorAt" \in DOMAIN r.body THEN r.body.errorAt ELSE Undefined
Info(r) == IF "info" \in DOMAIN r.body THEN r.body.info ELSE Undefined

Decoded(T) ==
    LET value == JSONParse(T) IN
    IF /\ ~value.syntaxError
       /\ ~value.isNull
       /\ "message" \in DOMAIN value.obj
       /\ value.obj["message"] # ""
    THEN value.obj["message"]
    ELSE T

C12_BothListsFailed(i) ==
    /\ variant = "extended"
    /\ Ended(i)
    /\ \E o \in Completions(i, "mailchimp") : FailureStatus(o)
    /\ \E o \in Completions(i, "mailchimp2") : FailureStatus(o)

\* C12 (extended): when both lists return a failing status the one response
\* is the 500 with errorAt "mailchimp 2" and the info decoded from the
\* second list's body; errorAt is "mailchimp 1" only when the first list
\* failed and the second did not.
C12_SecondListReportedFirst ==
    \A i \in Invocations :
        /\ C12_BothListsFailed(i) =>
              \A o \in Completions(i, "mailchimp2") :
                  sends[i] = <<[status |-> 500,
                                body |-> [message |-> "Internal Server Error",
                                          info |-> Decoded(o.text),
                                          errorAt |-> "mailchimp 2"]]>>
        /\ (variant = "extended" /\ sends[i] # <<>>
            /\ ErrorAt(Delivered(i)) = "mailchimp 1") =>
              /\ \E o \in Completions(i, "mailchimp") : FailureStatus(o)
              /\ \E o \in Completions(i, "mailchimp2") : SuccessStatus(o)

C12_Witness ==
    /\ C12_BothListsFailed(1)
    /\ \E o \in Completions(1, "mailchimp") : o.text = MsgText
    /\ \E o \in Completions(1, "mailchimp2") : o.text = PlainText
    /\ Info(Delivered(1)) = PlainText

\* the completion the handler last resumed with, and the response it last sent
LastCompletion(i) == received[i][Len(received[i])]
LastSent(i) == sends[i][Len(sends[i])]

\* the invocation ended on a provider's refusal: its last completion is a
\* failure status of the token call, of the registrant call, or of a list
\* call other than "already a member"
C13_ProviderRefused(i) ==
    /\ Ended(i)
    /\ received[i] # <<>>
    /\ FailureStatus(LastCompletion(i).outcome)
    /\ LastCompletion(i).endpoint \in {"mailchimp", "mailchimp2"}
          => ~AlreadyMember(LastCompletion(i).outcome)

\* C13: a provider's refusal at any stage (token, registrant, list) ends in
\* a 500 whose errorAt is defined and names the stage and whose info is
\* defined, derived from the provider's body.
C13_FailureCarriesProvenance ==
    \A i \in Invocations :
        C13_ProviderRefused(i) =>
            /\ LastSent(i).status = 500
            /\ ErrorAt(LastSent(i)) # Undefined
            /\ Info(LastSent(i)) = Decoded(LastCompletion(i).outcome.text)
            /\ LastCompletion(i).endpoint = "zoom" => ErrorAt(LastSent(i)) = "zoom"
            /\ LastCompletion(i).endpoint \in {"mailchimp", "mailchimp2"}
                  => ErrorAt(LastSent(i)) \in ListTags

\* the join_url of a registrant response's body, Undefined if it has none
JoinUrl(o) ==
    IF "join_url" \in DOMAIN JSONParse(o.text).obj
    THEN JSONParse(o.text).obj["join_url"]
    ELSE Undefined

\* C14 (base): once the mailing-list call has been dispatched the 200 with
\* the registrant response's join URL has been sent, and it is the response
\* the caller receives whether the list call is still in flight or has
\* completed with a success, "already a member", a failure or a rejection.
C14_RespondsBeforeListSync ==
    \A i \in Invocations :
        (variant = "base" /\ CallsTo(i, "mailchimp") # {}) =>
            /\ sends[i] # <<>>
            /\ \A o \in Completions(i, "zoom") :
                  Delivered(i) = [status |-> 200,
                                  body |-> [message |-> "Registration successful",
                                            join_url |-> JoinUrl(o)]]

C14_Witness ==
    /\ variant = "base"
    /\ Ended(1)
    /\ \E o \in Completions(1, "mailchimp") : o.status = 500
    /\ Len(sends[1]) = 2
    /\ Delivered(1).status = 200

Endpoints == {"token", "zoom", "mailchimp", "mailchimp2"}

\* C15: every endpoint is called at most once per invocation; the
\* registrant call follows a token response with a success status, and a
\* list call follows a registrant response with a success status, of the
\* same invocation.
C15_NoRetriesStageOrder ==
    \A i \in Invocations :
        /\ \A e \in Endpoints : Cardinality(CallsTo(i, e)) <= 1
        /\ CallsTo(i, "zoom") # {} =>
              \E o \in Completions(i, "token") : SuccessStatus(o)
        /\ (CallsTo(i, "mailchimp") # {} \/ CallsTo(i, "mailchimp2") # {}) =>
              \E o \in Completions(i, "zoom") : SuccessStatus(o)
        /\ \A e \in Endpoints : Cardinality(Completions(i, e)) <= 1
        /\ Len(received[i]) <= Len(calls[i])

C15_Witness ==
    /\ variant = "extended"
    /\ Ended(1)
    /\ Len(calls[1]) = 4
    /\ \E o \in Completions(1, "mailchimp") : o.threw = FALSE /\ o.status = 500
    /\ \E o \in Completions(1, "mailchimp2") : o.threw

\* the request is a POST that passes both validations
C16_ValidRequest(i) ==
    /\ req[i].method = "POST"
    /\ \A f \in C3_RequiredFields : ~C3_AbsentOrEmpty(req[i].body, f)
    /\ C4_Matches(req[i].body["email"])

\* C16: with two invocations interleaved, each validated invocation makes
\* its own token call, its registrant call carries the token returned to
\* that token call, and its responses are determined by its own request
\* and the completions of its own calls.
C16_InvocationsIndependent ==
    \A i \in Invocations :
        /\ C16_ValidRequest(i) => Cardinality(CallsTo(i, "token")) = 1
        /\ \A k \in CallsTo(i, "zoom") :
              \E o \in Completions(i, "token") :
                  /\ "access_token" \in DOMAIN JSONParse(o.text).obj
                  /\ calls[i][k].auth = JSONParse(o.text).obj["access_token"]
        /\ \A j \in Invocations :
              (req[i] = req[j] /\ received[i] = received[j]) => sends[i] = sends[j]

C16_Witness ==
    /\ pc[1] = "zoomResponse"
    /\ pc[2] = "mailchimpResponse"
    /\ \A k \in CallsTo(1, "zoom") : calls[1][k].auth = "tokA"
    /\ \A k \in CallsTo(2, "zoom") : calls[2][k].auth = "tokB"

\* C17 (extended): once the first list call has returned a response of any
\* status the second list call has been issued, and a 500 tagged
\* "mailchimp 1" is sent only after the second list call has been issued
\* and has completed.
C17_SecondListAlwaysTried ==
    \A i \in Invocations :
        variant = "extended" =>
            /\ (\E o \in Completions(i, "mailchimp") : ~o.threw)
                  => CallsTo(i, "mailchimp2") # {}
            /\ \A k \in 1..Len(sends[i]) :
                  ErrorAt(sends[i][k]) = "mailchimp 1"
                  => /\ CallsTo(i, "mailchimp2") # {}
                     /\ Completions(i, "mailchimp2") # {}
                     /\ sends[i][k].status = 500

C17_Witness ==
    /\ variant = "extended"
    /\ \E o \in Completions(1, "mailchimp") : o.status = 400
    /\ \E o \in Completions(1, "mailchimp2") : o.status = 200
    /\ ErrorAt(Delivered(1)) = "mailchimp 1"

\* the endpoint whose response body an error tag carries
TaggedEndpoint(tag) ==
    CASE tag = "zoom" -> "zoom"
      [] tag = "mailchimp" -> "mailchimp"
      [] tag = "mailchimp 1" -> "mailchimp"
      [] tag = "mailchimp 2" -> "mailchimp2"

\* C18: a response built by the catch block from an error carrying raw
\* body text T is a 500 whose info is the message of T when T is JSON for
\* an object with a non-empty message and T verbatim otherwise; an
\* invocation ended by a refused registrant or list call has run the catch
\* block to its 500.
C18_ErrorDecoded ==
    \A i \in Invocations :
        /\ \A k \in 1..Len(sends[i]) :
              ErrorAt(sends[i][k]) \in ListTags \cup {"zoom"}
              => /\ sends[i][k].status = 500
                 /\ \E o \in Completions(i, TaggedEndpoint(ErrorAt(sends[i][k]))) :
                       /\ FailureStatus(o)
                       /\ Info(sends[i][k]) = Decoded(o.text)
        /\ (C13_ProviderRefused(i) /\ LastCompletion(i).endpoint # "token")
              => /\ LastSent(i).status = 500
                 /\ ErrorAt(LastSent(i)) \in ListTags \cup {"zoom"}

C18_Witness ==
    /\ Ended(1)
    /\ \E o \in Completions(1, "zoom") : o.status = 400 /\ o.text = EmptyMsgText
    /\ LastSent(1).status = 500
    /\ Info(LastSent(1)) = EmptyMsgText

\* C19: when every issued call eventually completes, an invocation that has
\* received its request eventually has sent a response and has terminated.
C19_EventuallyResponds ==
    \A i \in {1} : (pc[i] # "idle") ~> (Ended(i) /\ sends[i] # <<>>)

C19_Witness ==
    /\ Ended(1)
    /\ sends[1] # <<>>
    /\ received[1] # <<>>
    /\ LastCompletion(1).endpoint = "mailchimp2"
    /\ LastCompletion(1).outcome.threw

\* C20: a 200 is sent only by an invocation whose request passed
\* validation and whose token call and registrant call completed with a
\* success status; in the extended variant both list calls have also
\* completed with a success status.
C20_SuccessOnlyAfterAllStages ==
    \A i \in Invocations :
        \A k \in 1..Len(sends[i]) :
            sends[i][k].status = 200 =>
                /\ C16_ValidRequest(i)
                /\ \E o \in Completions(i, "token") : SuccessStatus(o)
                /\ \E o \in Completions(i, "zoom") : SuccessStatus(o)
                /\ variant = "extended" =>
                      /\ \E o \in Completions(i, "mailchimp") : SuccessStatus(o)
                      /\ \E o \in Completions(i, "mailchimp2") : SuccessStatus(o)

C20_Witness ==
    /\ variant = "extended"
    /\ Ended(1)
    /\ Delivered(1).status = 200
    /\ req[1].body["region"] = "Canada"
    /\ \E o \in Completions(1, "mailchimp2") : o.status = 200

====
